---- MODULE Spec2Model ----
(***************************************************************************)
(* Layout-to-raster rendering of a design Spec (lib/render.py,             *)
(* lib/types.py, lib/utils.py).                                            *)
(*                                                                         *)
(* Strings whose characters matter (node text, asset descriptions) are     *)
(* sequences of one-character strings; the other strings are atoms.        *)
(* The compiled document is kept as a record of the parts the f-string of  *)
(* _generate_html interpolates: the font link, the #canvas rule and the    *)
(* list nodes_html.                                                        *)
(***************************************************************************)
EXTENDS Integers, Sequences, FiniteSets, TLC

VARIABLES
    spec,          \* the Spec handed to render_image (immutable during a run)
    call,          \* the canvas_width / canvas_height arguments of the call site
    asset_dir,     \* the asset_dir argument: None or a directory
    fs,            \* the files present in that directory
    hash_seed,     \* string-hash seed of the running interpreter: set iteration order
    page,          \* the page of the last call: its viewport and loaded content
    bitmap,        \* the screenshot written to output_path by the last call
    html_file,     \* content of output_path.with_suffix('.html')
    compiled,      \* history: the documents _generate_html returned, oldest first
    \* validation of an input mapping (lib/types.py)
    v_input,       \* the mapping handed to the Spec constructor
    v_first,       \* result of validating v_input
    v_canon,       \* result of validating v_input respelled with canonical keys
    v_second,      \* result of validating the serialized first result
    \* the batch script (test_render.py --all) and the render_image call it is in
    b_pc,          \* script: "idle", "loop", "render", "done" or "aborted"
    b_i,           \* index of the design the loop of render_all_designs is at
    b_runs,        \* number of times the script was started
    log,           \* per design of the running script: "pending", "ok" or "failed"
    r_pc,          \* the statement render_image is at
    r_input,       \* the spec argument: the mapping read from spec.json
    r_spec,        \* the validated Spec
    r_html,        \* html_content
    r_failed,      \* the step whose exception is propagating, if any
    r_before,      \* the files of the design when the call began
    playwright,    \* the driver behind sync_playwright(): "stopped" or "running"
    alive,         \* the browser instances that are alive
    disk,          \* per design: output directory, markup file and bitmap file
    \* one call of a generation client
    c_kind,        \* the client called
    c_pc,          \* "idle", "submitted", "sleep", "request", "status", "returned", "raised"
    c_url,         \* status_url
    c_resp,        \* the last response received
    c_gets,        \* status requests issued (counted up to MaxPolls)
    c_waits,       \* waits made between requests (counted up to MaxPolls)
    c_result,      \* the value returned
    c_error,       \* the exception raised
    \* the run of test_render.py --all --gen-images
    g_pc,          \* "idle", "generating", "rendering", "finished" or "aborted"
    g_specs,       \* per design: the mapping read from its spec.json
    g_gen,         \* per design: generate_assets "created", "running" or "failed"
    g_tasks,       \* the generation tasks gathered, each with its position
    g_writes,      \* the asset files written: design, path, writing task, payload
    g_docs,        \* per design: the document compiled by its render
    \* the scorer modules of one process and the get_model call under way
    s_model,       \* per scorer: the global _model
    s_second,      \* per scorer: the global _tokenizer or _processor
    s_cur,         \* the scorer whose get_model is called
    s_pc,          \* "idle", "load_model", "prepare", "load_second", "returned", "raised"
    s_ret,         \* the pair returned
    s_calls        \* number of get_model calls made

compileVars ==
    <<spec, call, asset_dir, fs, hash_seed, page, bitmap, html_file, compiled>>

validateVars == <<v_input, v_first, v_canon, v_second>>

renderVars ==
    <<b_pc, b_i, b_runs, log, r_pc, r_input, r_spec, r_html, r_failed, r_before,
      playwright, alive, disk>>

pollVars == <<c_kind, c_pc, c_url, c_resp, c_gets, c_waits, c_result, c_error>>

genVars == <<g_pc, g_specs, g_gen, g_tasks, g_writes, g_docs>>

scorerVars == <<s_model, s_second, s_cur, s_pc, s_ret, s_calls>>

vars == <<compileVars, validateVars, renderVars, pollVars, genVars, scorerVars>>

\* Optional values: None is the empty set, a present value v is {v}
None == {}

Some(v) == {v}

Get(o) == CHOOSE v \in o : TRUE

\* Python truthiness of an Optional[str]: None and '' are falsy
Truthy(o) == o # None /\ o # Some(<<>>)

\* asset_dir is None or a Path; a Path object is always truthy
NoDir == "None"

----------------------------------------------------------------------------
(* Bounds *)

MaxNodes == 3

MaxTextLen == 4

MaxRuns == 2

----------------------------------------------------------------------------
(* Program constants *)

DefaultCanvasWidth == 800

DefaultCanvasHeight == 600

DescLimit == 100

google_fonts ==
    [f \in {"Anton", "Dancing Script", "Great Vibes", "Montserrat", "Poppins"} |->
        CASE f = "Anton"          -> "family=Anton"
          [] f = "Dancing Script" -> "family=Dancing+Script:wght@400;700"
          [] f = "Great Vibes"    -> "family=Great+Vibes"
          [] f = "Montserrat"     -> "family=Montserrat:wght@100;400;700;900"
          [] f = "Poppins"        -> "family=Poppins:wght@100;400;700;900"]

MIME_BY_SUFFIX ==
    [s \in {".webp", ".png", ".jpg", ".jpeg"} |->
        CASE s = ".webp" -> "image/webp"
          [] s = ".png"  -> "image/png"
          [] s = ".jpg"  -> "image/jpeg"
          [] s = ".jpeg" -> "image/jpeg"]

----------------------------------------------------------------------------
(* Scene model (lib/types.py) *)

TextNode(text, x, font_family) ==
    [type |-> "text", text |-> text,
     x |-> x, y |-> 10, width |-> 100, height |-> 50,
     rotation |-> 0, opacity |-> 1,
     font_family |-> font_family, font_size |-> 12, color |-> "#000000",
     text_align |-> "left", font_weight |-> "normal", font_style |-> "normal",
     text_decoration |-> "none", text_transform |-> "none"]

ImageNode(asset_description, x, width) ==
    [type |-> "image", asset_description |-> asset_description,
     x |-> x, y |-> 20, width |-> width, height |-> 200,
     rotation |-> 0, opacity |-> 1]

MkSpec(cw, ch, color, has_bg, bg_desc, nodes) ==
    [canvas_width |-> cw, canvas_height |-> ch,
     background_color |-> color,
     has_background_image |-> has_bg,
     background_image_description |-> bg_desc,
     nodes |-> nodes]

----------------------------------------------------------------------------
(* Paths and files (pathlib, lib/utils.py) *)

AssetPath(idx) == [name |-> <<"asset-", idx>>, suffix |-> ".png"]

BackgroundPath == [name |-> <<"background">>, suffix |-> ".png"]

\* path.exists(): the directory is looked up directly for that one name
Exists(files, path) == path \in files

\* image_path.read_bytes(): the payload stored under that name
ReadBytes(path) == <<"bytes of", path.name>>

Base64(bytes) == <<"b64">> \o bytes

ToDataUrl(path) ==
    [scheme |-> "data",
     mime |-> IF path.suffix \in DOMAIN MIME_BY_SUFFIX
              THEN MIME_BY_SUFFIX[path.suffix]
              ELSE "application/octet-stream",
     b64 |-> Base64(ReadBytes(path))]

----------------------------------------------------------------------------
(* _generate_html: fonts (render.py 19-43) *)

\* variant: every known external family is requested, used or not
FontsNeeded_AllKnown(nodes) ==
    {nodes[i].font_family : i \in {j \in 1..Len(nodes) : nodes[j].type = "text"}}
    \cup DOMAIN google_fonts

\* fonts_needed: the set of font_family values of the TextNodes
FontsNeeded(nodes) ==
    {nodes[i].font_family : i \in {j \in 1..Len(nodes) : nodes[j].type = "text"}}

\* The hash-table slot order of the font names under a string-hash seed
\* (PYTHONHASHSEED, drawn at interpreter start): two seeds with opposite orders.
SlotOrder(seed) ==
    IF seed = 1 THEN <<"Anton", "Arial", "Poppins">>
    ELSE <<"Poppins", "Arial", "Anton">>

\* Iterating a set of str visits its members in slot order
SetIter(S, seed) == SelectSeq(SlotOrder(seed), LAMBDA f : f \in S)

RECURSIVE CollectImports(_, _)
CollectImports(order, font_imports) ==
    IF order = <<>> THEN font_imports
    ELSE CollectImports(Tail(order),
                        IF Head(order) \in DOMAIN google_fonts
                        THEN Append(font_imports, google_fonts[Head(order)])
                        ELSE font_imports)

FontImports(nodes, seed) == CollectImports(SetIter(FontsNeeded(nodes), seed), <<>>)

\* '&'.join(font_imports) followed by '&display=swap': the query parameters in order
FontsUrl(font_imports) ==
    IF font_imports # <<>>
    THEN Some([base |-> "https://fonts.googleapis.com/css2",
               query |-> font_imports \o <<"display=swap">>])
    ELSE None

\* the <link ... rel="stylesheet"> tag, '' when fonts_url is None
FontLink(fonts_url) ==
    IF fonts_url # None THEN Some([rel |-> "stylesheet", href |-> Get(fonts_url)])
    ELSE None

----------------------------------------------------------------------------
(* _generate_html: node boxes (render.py 45-123) *)

\* str.replace(old, new) for a one-character old
RECURSIVE Replace(_, _, _)
Replace(s, old, new) ==
    IF s = <<>> THEN <<>>
    ELSE (IF Head(s) = old THEN new ELSE <<Head(s)>>) \o Replace(Tail(s), old, new)

\* variant: '&' replaced last, after the entities for '<' and '>' were written
EscapeHtml_AmpLast(text) ==
    Replace(Replace(Replace(text, "<", <<"&", "l", "t", ";">>),
                    ">", <<"&", "g", "t", ";">>),
            "&", <<"&", "a", "m", "p", ";">>)

EscapeHtml(text) ==
    Replace(Replace(Replace(text, "&", <<"&", "a", "m", "p", ";">>),
                    "<", <<"&", "l", "t", ";">>),
            ">", <<"&", "g", "t", ";">>)

GeometryStyle(node) ==
    [position |-> "absolute", left |-> node.x, top |-> node.y,
     width |-> node.width, height |-> node.height,
     rotate |-> node.rotation, opacity |-> node.opacity]

TextBox(node) ==
    [tag |-> "div",
     style |-> GeometryStyle(node),
     font |-> Some([family |-> node.font_family, size |-> node.font_size,
                    color |-> node.color, align |-> node.text_align,
                    weight |-> node.font_weight, style |-> node.font_style,
                    decoration |-> node.text_decoration,
                    transform |-> node.text_transform]),
     src |-> None, alt |-> None, title |-> None,
     content |-> EscapeHtml(node.text)]

ImgBox(node, image_src) ==
    [tag |-> "img",
     style |-> GeometryStyle(node),
     font |-> None,
     src |-> image_src, alt |-> Some(node.asset_description), title |-> None,
     content |-> <<>>]

\* s[:n]
Prefix(s, n) == SubSeq(s, 1, IF Len(s) < n THEN Len(s) ELSE n)

PlaceholderBox(node) ==
    [tag |-> "div",
     style |-> GeometryStyle(node),
     font |-> None,
     src |-> None, alt |-> None, title |-> Some(node.asset_description),
     content |-> <<"[", "I", "m", "a", "g", "e", ":", " ">>
                 \o Prefix(node.asset_description, DescLimit) \o <<"]">>]

\* variant: the counter advances on every node
NextImageIdx_EveryNode(node, image_node_idx) == image_node_idx + 1

\* lines 77-78: only an ImageNode advances image_node_idx
NextImageIdx(node, image_node_idx) ==
    IF node.type = "image" THEN image_node_idx + 1 ELSE image_node_idx

\* lines 80-85: image_src stays None unless asset_dir is given and the file exists
ImageSrc(image_node_idx, dir, files) ==
    IF dir # NoDir /\ Exists(files, AssetPath(image_node_idx))
    THEN Some(ToDataUrl(AssetPath(image_node_idx)))
    ELSE None

ImageBox(node, image_src) ==
    IF image_src # None THEN ImgBox(node, image_src) ELSE PlaceholderBox(node)

\* variant: nodes_html.insert(0, ...)
AppendBox_Prepend(nodes_html, box) == <<box>> \o nodes_html

\* nodes_html.append(...)
AppendBox(nodes_html, box) == Append(nodes_html, box)

\* the loop of lines 46-123 from node i on
RECURSIVE NodeLoop(_, _, _, _, _, _)
NodeLoop(nodes, i, image_node_idx, nodes_html, dir, files) ==
    IF i > Len(nodes) THEN nodes_html
    ELSE LET node == nodes[i]
             idx  == NextImageIdx(node, image_node_idx)
             box  == IF node.type = "text" THEN TextBox(node)
                     ELSE ImageBox(node, ImageSrc(idx, dir, files))
         IN  NodeLoop(nodes, i + 1, idx, AppendBox(nodes_html, box), dir, files)

NodesHtml(nodes, dir, files) == NodeLoop(nodes, 1, 0, <<>>, dir, files)

----------------------------------------------------------------------------
(* _generate_html: background and document (render.py 125-173) *)

\* variant: the background file is referenced without the exists() check
BgStyle_NoExistsCheck(s, dir, files) ==
    IF /\ s.has_background_image
       /\ Truthy(s.background_image_description)
       /\ dir # NoDir
    THEN <<[prop |-> "background-image", value |-> Some(ToDataUrl(BackgroundPath))],
           [prop |-> "background-size", value |-> Some("cover")],
           [prop |-> "background-position", value |-> Some("center")]>>
    ELSE <<[prop |-> "background-color", value |-> Some(s.background_color)]>>

\* bg_style as the list of its CSS declarations
BgStyle(s, dir, files) ==
    IF /\ s.has_background_image
       /\ Truthy(s.background_image_description)
       /\ dir # NoDir
       /\ Exists(files, BackgroundPath)
    THEN <<[prop |-> "background-image", value |-> Some(ToDataUrl(BackgroundPath))],
           [prop |-> "background-size", value |-> Some("cover")],
           [prop |-> "background-position", value |-> Some("center")]>>
    ELSE <<[prop |-> "background-color", value |-> Some(s.background_color)]>>

GenerateHtml(s, canvas_width, canvas_height, dir, files, seed) ==
    [font_link |-> FontLink(FontsUrl(FontImports(s.nodes, seed))),
     body |-> [overflow |-> "hidden"],
     canvas |-> [width |-> canvas_width, height |-> canvas_height,
                 bg_style |-> BgStyle(s, dir, files), overflow |-> "hidden"],
     nodes_html |-> NodesHtml(s.nodes, dir, files)]

----------------------------------------------------------------------------
(* Inputs *)

FontFamilies == {"Arial", "Anton", "Poppins"}

Seeds == {1, 2}

TextChars == {"&", "<", ">", "l", "t", ";", "x"}

RECURSIVE StringsUpTo(_, _)
StringsUpTo(chars, n) ==
    IF n = 0 THEN {<<>>}
    ELSE LET shorter == StringsUpTo(chars, n - 1)
         IN  shorter \cup {Append(t, c) : t \in shorter, c \in chars}

ShortDesc == <<"c", "a", "t">>

\* a description holding a double quote, as in: a sign saying "sale"
QuotedDesc == <<"a", "\"", "b">>

\* a description one character longer than the placeholder shows
LongDesc == [i \in 1..(DescLimit + 1) |-> IF i % 2 = 1 THEN "x" ELSE "y"]

TextPool ==
    {TextNode(<<"<", "b", ">">>, 10, "Arial"),
     TextNode(<<"a", "&", "b">>, 20, "Anton"),
     TextNode(<<"h", "i">>, 750, "Poppins")}

ImagePool ==
    {ImageNode(ShortDesc, 0, 300),
     ImageNode(QuotedDesc, 100, 2000)}

RECURSIVE NodeSeqs(_, _)
NodeSeqs(pool, n) ==
    IF n = 0 THEN {<<>>}
    ELSE LET shorter == NodeSeqs(pool, n - 1)
         IN  shorter \cup {Append(t, nd) : t \in shorter, nd \in pool}

AssetFiles(n) == {AssetPath(k) : k \in 1..n} \cup {BackgroundPath}

CanvasSizes == {<<800, 600>>, <<1080, 1350>>}

\* the call site leaves canvas_width/canvas_height out or passes both
Calls ==
    {[passed |-> FALSE, canvas_width |-> DefaultCanvasWidth,
      canvas_height |-> DefaultCanvasHeight]}
    \cup {[passed |-> TRUE, canvas_width |-> c[1], canvas_height |-> c[2]] :
            c \in CanvasSizes}

BgDescriptions == {None, Some(<<>>), Some(<<"s", "k", "y">>)}

InitOutputs ==
    /\ page = None
    /\ bitmap = None
    /\ html_file = None
    /\ compiled = <<>>

\* the number of ImageNodes, the highest ordinal the compiler looks up
NumImages(nodes) == Cardinality({i \in 1..Len(nodes) : nodes[i].type = "image"})

\* Specs with up to MaxNodes interleaved text and image nodes, every store of
\* the asset files that can be looked up for them
InitNodes ==
    /\ spec \in {MkSpec(800, 600, "#ffffff", TRUE, Some(<<"s", "k", "y">>), nodes) :
                    nodes \in NodeSeqs(TextPool \cup ImagePool, MaxNodes)}
    /\ call \in {c \in Calls : ~c.passed}
    /\ \/ asset_dir = NoDir /\ fs = {}
       \/ asset_dir = "assets" /\ fs \in SUBSET AssetFiles(NumImages(spec.nodes))

\* every background configuration, canvas size and call site
InitBackground ==
    /\ spec \in {MkSpec(c[1], c[2], "#336699", has_bg, bg_desc, nodes) :
                    c \in CanvasSizes, has_bg \in BOOLEAN, bg_desc \in BgDescriptions,
                    nodes \in NodeSeqs({ImageNode(LongDesc, 700, 300)}, 1)}
    /\ call \in Calls
    /\ \/ asset_dir = NoDir /\ fs = {}
       \/ asset_dir = "assets" /\ fs \in SUBSET AssetFiles(1)

\* one TextNode with every text of up to MaxTextLen characters
InitText ==
    /\ spec \in {MkSpec(800, 600, "#ffffff", FALSE, None, <<TextNode(text, 10, "Arial")>>) :
                    text \in StringsUpTo(TextChars, MaxTextLen)}
    /\ call \in {c \in Calls : ~c.passed}
    /\ asset_dir = NoDir /\ fs = {}

\* no validation is under way
IdleValidate ==
    /\ v_input = None /\ v_first = None /\ v_canon = None /\ v_second = None

MaxDesigns == 2

MaxScriptRuns == 2

Designs == 1..MaxDesigns

Scorers == {"aesexpert", "uiclip"}

\* the scorer modules are imported and get_model was never called
IdleScorer ==
    /\ s_model = [k \in Scorers |-> None] /\ s_second = [k \in Scorers |-> None]
    /\ s_cur = None /\ s_pc = "idle" /\ s_ret = None /\ s_calls = 0

\* the script with --gen-images was not started
IdleGen ==
    /\ g_pc = "idle" /\ g_specs = <<>> /\ g_gen = <<>>
    /\ g_tasks = {} /\ g_writes = {} /\ g_docs = <<>>

\* no generation client was called
IdlePoll ==
    /\ c_kind = None /\ c_pc = "idle" /\ c_url = None /\ c_resp = None
    /\ c_gets = 0 /\ c_waits = 0 /\ c_result = None /\ c_error = None

NoFiles == [dir |-> FALSE, html |-> None, png |-> None]

\* the script is not running and nothing was rendered
IdleRender ==
    /\ b_pc = "idle" /\ b_i = 1 /\ b_runs = 0
    /\ log = [d \in Designs |-> "pending"]
    /\ r_pc = "idle" /\ r_input = None /\ r_spec = None /\ r_html = None
    /\ r_failed = None /\ r_before = NoFiles
    /\ playwright = "stopped" /\ alive = {}
    /\ disk = [d \in Designs |-> NoFiles]

Init ==
    /\ InitNodes \/ InitBackground \/ InitText
    /\ hash_seed \in Seeds
    /\ InitOutputs
    /\ IdleValidate
    /\ IdleRender
    /\ IdlePoll
    /\ IdleGen
    /\ IdleScorer

----------------------------------------------------------------------------
(* render_image (render.py 176-224) *)

\* One successful call: compile, save the markup next to the image, open a
\* page of the requested viewport, load the document, capture the viewport.
RenderImage ==
    /\ Len(compiled) < MaxRuns
    /\ LET html == GenerateHtml(spec, call.canvas_width, call.canvas_height,
                                asset_dir, fs, hash_seed)
           vp   == [width |-> call.canvas_width, height |-> call.canvas_height]
       IN  /\ html_file' = Some(html)
           /\ page' = Some([viewport |-> vp, content |-> html])
           /\ bitmap' = Some([width |-> vp.width, height |-> vp.height])
           /\ compiled' = Append(compiled, html)
    /\ UNCHANGED <<spec, call, asset_dir, fs, hash_seed>>
    /\ UNCHANGED <<validateVars, renderVars, pollVars, genVars, scorerVars>>

\* The script is started again: a new interpreter draws a new hash seed;
\* the files written so far stay.
Restart ==
    /\ Len(compiled) < MaxRuns
    /\ hash_seed' \in Seeds \ {hash_seed}
    /\ UNCHANGED <<spec, call, asset_dir, fs, page, bitmap, html_file, compiled>>
    /\ UNCHANGED <<validateVars, renderVars, pollVars, genVars, scorerVars>>

Next == RenderImage \/ Restart

Spec == Init /\ [][Next]_vars

----------------------------------------------------------------------------
(* Properties of the compiled document *)

Docs == {compiled[k] : k \in 1..Len(compiled)}

Rendered == compiled # <<>>

TextIdx == {i \in 1..Len(spec.nodes) : spec.nodes[i].type = "text"}

ImageIdx == {i \in 1..Len(spec.nodes) : spec.nodes[i].type = "image"}

\* 1-based position of node i among the image nodes
Ordinal(i) == Cardinality({j \in 1..i : spec.nodes[j].type = "image"})

HasAsset(i) == asset_dir # NoDir /\ AssetPath(Ordinal(i)) \in fs

HasBackgroundAsset == asset_dir # NoDir /\ BackgroundPath \in fs

\* box is the element emitted for node: same geometry, same kind, same content source
BoxOf(node, box) ==
    /\ box.style.left = node.x /\ box.style.top = node.y
    /\ box.style.width = node.width /\ box.style.height = node.height
    /\ IF node.type = "text"
       THEN /\ box.tag = "div" /\ box.font # None
            /\ Get(box.font).family = node.font_family
            /\ box.title = None
       ELSE /\ box.font = None
            /\ \/ box.tag = "img" /\ box.alt = Some(node.asset_description)
               \/ box.tag = "div" /\ box.title = Some(node.asset_description)

\* C1: every compiled document holds exactly one box per node, and box i is
\* the box of node i: the boxes follow the order of spec.nodes, however text
\* and image nodes are interleaved and whichever image nodes have assets.
C1_OneBoxPerNodeInOrder ==
    \A d \in Docs :
        /\ Len(d.nodes_html) = Len(spec.nodes)
        /\ \A i \in 1..Len(spec.nodes) : BoxOf(spec.nodes[i], d.nodes_html[i])

\* an image without asset, then a text, then an image with asset, compiled
C1_Witness ==
    /\ Rendered
    /\ Len(spec.nodes) = 3
    /\ spec.nodes[1].type = "image" /\ ~HasAsset(1)
    /\ spec.nodes[2].type = "text"
    /\ spec.nodes[3].type = "image" /\ HasAsset(3)
    /\ spec.nodes[1] # spec.nodes[3]
    /\ compiled[1].nodes_html[3].tag = "img"

\* the three entities the escaping writes
Entities ==
    {<<"&", "a", "m", "p", ";">>, <<"&", "l", "t", ";">>, <<"&", "g", "t", ";">>}

StartsWith(s, e) == Len(s) >= Len(e) /\ SubSeq(s, 1, Len(e)) = e

\* decoding of the three entities in one left-to-right pass
RECURSIVE Unescape(_)
Unescape(s) ==
    IF s = <<>> THEN <<>>
    ELSE IF StartsWith(s, <<"&", "a", "m", "p", ";">>)
         THEN <<"&">> \o Unescape(SubSeq(s, 6, Len(s)))
    ELSE IF StartsWith(s, <<"&", "l", "t", ";">>)
         THEN <<"<">> \o Unescape(SubSeq(s, 5, Len(s)))
    ELSE IF StartsWith(s, <<"&", "g", "t", ";">>)
         THEN <<">">> \o Unescape(SubSeq(s, 5, Len(s)))
    ELSE <<Head(s)>> \o Unescape(Tail(s))

\* C2: the text content emitted for a TextNode holds no raw '<' or '>', every
\* '&' in it starts one of &amp; &lt; &gt;, and decoding these three entities
\* gives back the node's text exactly.
C2_TextEscaped ==
    \A d \in Docs : \A i \in TextIdx :
        LET c == d.nodes_html[i].content
        IN  /\ \A p \in 1..Len(c) : c[p] # "<" /\ c[p] # ">"
            /\ \A p \in 1..Len(c) :
                  c[p] = "&" => \E e \in Entities : StartsWith(SubSeq(c, p, Len(c)), e)
            /\ Unescape(c) = spec.nodes[i].text

\* a compiled text that reads like an entity and also holds a raw '<'
C2_Witness ==
    /\ Rendered
    /\ Len(spec.nodes) = 1 /\ spec.nodes[1].type = "text"
    /\ Len(spec.nodes[1].text) = 4
    /\ StartsWith(spec.nodes[1].text, <<"&", "l", "t">>)
    /\ spec.nodes[1].text[4] = "<"
    /\ Len(compiled[1].nodes_html[1].content) = 11

\* the value an HTML parser reads from attr="raw": it ends at the first '"'
RECURSIVE AttrValue(_)
AttrValue(raw) ==
    IF raw = <<>> \/ Head(raw) = "\"" THEN <<>>
    ELSE <<Head(raw)>> \o AttrValue(Tail(raw))

PlaceholderOpen == <<"[", "I", "m", "a", "g", "e", ":", " ">>

\* C3: every ImageNode yields exactly one element: the inlined image when its
\* asset file exists, otherwise a placeholder whose visible label is the
\* description cut to 100 characters and whose hover label (the title
\* attribute as the document carries it) is the full description.
C3_ImageNodeVisible ==
    \A d \in Docs :
        /\ Len(d.nodes_html) = Len(spec.nodes)
        /\ \A i \in ImageIdx :
              LET box  == d.nodes_html[i]
                  desc == spec.nodes[i].asset_description
              IN  IF HasAsset(i)
                  THEN box.tag = "img" /\ box.src # None
                  ELSE /\ box.tag = "div"
                       /\ box.content =
                            PlaceholderOpen \o Prefix(desc, DescLimit) \o <<"]">>
                       /\ Len(box.content) <= Len(PlaceholderOpen) + DescLimit + 1
                       /\ box.title # None
                       /\ AttrValue(Get(box.title)) = desc

\* C4: the asset of an ImageNode is the file asset-k.png for k the node's
\* 1-based position among the image nodes: texts do not advance k, an image
\* without asset still consumes its k, background.png plays no part.
C4_AssetByImageOrdinal ==
    \A d \in Docs : \A i \in ImageIdx :
        LET box == d.nodes_html[i]
        IN  /\ box.tag = "img" <=> HasAsset(i)
            /\ box.tag = "img" => box.src = Some(ToDataUrl(AssetPath(Ordinal(i))))

\* text, image without asset-1, image with asset-2, background.png present
C4_Witness ==
    /\ Rendered
    /\ Len(spec.nodes) = 3
    /\ spec.nodes[1].type = "text"
    /\ spec.nodes[2].type = "image" /\ spec.nodes[3].type = "image"
    /\ asset_dir # NoDir
    /\ fs = {AssetPath(2), BackgroundPath}
    /\ compiled[1].nodes_html[2].tag = "div"
    /\ compiled[1].nodes_html[3].src = Some(ToDataUrl(AssetPath(2)))

ColorOnly == <<[prop |-> "background-color", value |-> Some(spec.background_color)]>>

UsesBackgroundImage(d) ==
    /\ \E k \in 1..Len(d.canvas.bg_style) :
          d.canvas.bg_style[k] =
            [prop |-> "background-image", value |-> Some(ToDataUrl(BackgroundPath))]
    /\ \E k \in 1..Len(d.canvas.bg_style) :
          d.canvas.bg_style[k] = [prop |-> "background-size", value |-> Some("cover")]
    /\ \E k \in 1..Len(d.canvas.bg_style) :
          d.canvas.bg_style[k] = [prop |-> "background-position", value |-> Some("center")]

\* C5: with has_background_image true and no background asset to resolve
\* (no asset_dir, or no background.png in it) the canvas background is
\* exactly the solid background_color.
C5_BackgroundFallsBackToColor ==
    \A d \in Docs :
        (spec.has_background_image /\ ~HasBackgroundAsset) => d.canvas.bg_style = ColorOnly

\* flag set, description given, directory present, background.png missing
C5_Witness ==
    /\ Rendered
    /\ spec.has_background_image
    /\ Truthy(spec.background_image_description)
    /\ asset_dir # NoDir /\ BackgroundPath \notin fs /\ fs # {}
    /\ compiled[1].canvas.bg_style = ColorOnly

\* C6: the canvas style of every compiled document carries background_color,
\* also when a background image was resolved.
C6_ColorIsBaseLayer ==
    \A d \in Docs :
        \E k \in 1..Len(d.canvas.bg_style) :
            d.canvas.bg_style[k] =
                [prop |-> "background-color", value |-> Some(spec.background_color)]

\* C7: has_background_image true and background.png present: the document
\* uses the image (cover, centred) whatever background_image_description is;
\* has_background_image false: the image is never used.
C7_BackgroundImageByFlag ==
    \A d \in Docs :
        /\ (spec.has_background_image /\ HasBackgroundAsset) => UsesBackgroundImage(d)
        /\ ~spec.has_background_image => d.canvas.bg_style = ColorOnly

\* C8: after a render_image call the canvas box of the document, the page
\* viewport and the bitmap are spec.canvas_width x spec.canvas_height, also
\* when the call passes no canvas_width / canvas_height.
C8_SizedBySpecCanvas ==
    Rendered =>
        /\ \A d \in Docs : /\ d.canvas.width = spec.canvas_width
                           /\ d.canvas.height = spec.canvas_height
        /\ Get(page).viewport =
              [width |-> spec.canvas_width, height |-> spec.canvas_height]
        /\ Get(bitmap) = [width |-> spec.canvas_width, height |-> spec.canvas_height]

\* C9: two compilations of the same Spec with the same canvas size and the
\* same asset directory give the identical document.
C9_Deterministic ==
    \A i, j \in 1..Len(compiled) : compiled[i] = compiled[j]

UsedKnownFonts == {spec.nodes[i].font_family : i \in TextIdx} \cap DOMAIN google_fonts

\* C10: the document has a font-loading link iff some TextNode uses a known
\* external family, and the link requests exactly the known families the
\* TextNodes use, each once, followed by display=swap.
C10_FontLinkExactlyUsed ==
    \A d \in Docs :
        /\ d.font_link # None <=> UsedKnownFonts # {}
        /\ d.font_link # None =>
              LET q == Get(d.font_link).href.query
                  n == Len(q)
              IN  /\ n = Cardinality(UsedKnownFonts) + 1
                  /\ q[n] = "display=swap"
                  /\ {q[k] : k \in 1..(n - 1)} = {google_fonts[f] : f \in UsedKnownFonts}

\* two known families and a native one in one Spec, compiled
C10_Witness ==
    /\ Rendered
    /\ {spec.nodes[i].font_family : i \in TextIdx} = {"Arial", "Anton", "Poppins"}
    /\ Len(Get(compiled[1].font_link).href.query) = 3

----------------------------------------------------------------------------
(* Validation of an input mapping against the models of lib/types.py *)

MaxValNodes == 2

\* JSON values of an input mapping, tagged by kind
JInt(n) == [k |-> "int", num |-> n]

JFloat(n) == [k |-> "float", num |-> n]

JStr(str) == [k |-> "str", str |-> str]

JBool(b) == [k |-> "bool", bool |-> b]

JNull == [k |-> "null"]

JList(items) == [k |-> "list", v |-> items]

\* the value carried by a tagged value
ValueOf(raw) ==
    CASE raw.k \in {"int", "float"} -> raw.num
      [] raw.k = "str"  -> raw.str
      [] raw.k = "bool" -> raw.bool

\* Config.populate_by_name (types.py 25-26), switched off
PopulateByName_Off == FALSE

\* Config.populate_by_name = True: a field is also found under its own name
PopulateByName == TRUE

Field(name, alias, ty, default) ==
    [name |-> name, alias |-> alias, ty |-> ty, default |-> default]

GeometryFields ==
    <<Field("x", "x", "int", None), Field("y", "y", "int", None),
      Field("width", "width", "int", None), Field("height", "height", "int", None),
      Field("rotation", "rotation", "int", Some(JInt(0))),
      Field("opacity", "opacity", "float", Some(JInt(1)))>>

TextNodeFields ==
    <<Field("type", "type", "literal_text", Some(JStr("text"))),
      Field("text", "text", "str", None)>>
    \o GeometryFields \o
    <<Field("font_family", "font-family", "str", Some(JStr("Arial"))),
      Field("font_size", "font-size", "int", Some(JInt(12))),
      Field("color", "color", "str", Some(JStr("#000000"))),
      Field("text_align", "text-align", "str", Some(JStr("left"))),
      Field("font_weight", "font-weight", "str", Some(JStr("normal"))),
      Field("font_style", "font-style", "str", Some(JStr("normal"))),
      Field("text_decoration", "text-decoration", "str", Some(JStr("none"))),
      Field("text_transform", "text-transform", "str", Some(JStr("none")))>>

ImageNodeFields ==
    <<Field("type", "type", "literal_image", Some(JStr("image"))),
      Field("asset_description", "asset_description", "str", None)>>
    \o GeometryFields

\* the fields of Spec other than nodes
SpecFields ==
    <<Field("canvas_width", "canvas_width", "int", None),
      Field("canvas_height", "canvas_height", "int", None),
      Field("background_color", "background_color", "str", None),
      Field("has_background_image", "has_background_image", "bool", None),
      Field("background_image_description", "background_image_description",
            "optstr", Some(JNull))>>

\* does a value of that kind validate for a field of that type
Accepts(ty, raw) ==
    CASE ty = "int"           -> raw.k = "int"
      [] ty = "float"         -> raw.k \in {"int", "float"}
      [] ty = "str"           -> raw.k = "str"
      [] ty = "bool"          -> raw.k = "bool"
      [] ty = "optstr"        -> raw.k \in {"str", "null"}
      [] ty = "literal_text"  -> raw.k = "str" /\ raw.str = "text"
      [] ty = "literal_image" -> raw.k = "str" /\ raw.str = "image"

\* the validated field value
Convert(ty, raw) ==
    IF ty = "optstr" THEN (IF raw.k = "null" THEN None ELSE Some(raw.str))
    ELSE ValueOf(raw)

\* the input value of a field: under its alias, else (populate_by_name) its name
Lookup(f, m) ==
    IF f.alias \in DOMAIN m THEN Some(m[f.alias])
    ELSE IF PopulateByName /\ f.name \in DOMAIN m THEN Some(m[f.name])
    ELSE None

FieldError(f, m) ==
    LET r == Lookup(f, m)
    IN  IF r = None THEN f.default = None ELSE ~Accepts(f.ty, Get(r))

FieldValue(f, m) ==
    LET r == Lookup(f, m)
    IN  Convert(f.ty, IF r = None THEN Get(f.default) ELSE Get(r))

\* BaseModel validation: every offending field is reported, extra keys are ignored
ValidateModel(fields, m) ==
    LET bad == {i \in 1..Len(fields) : FieldError(fields[i], m)}
    IN  IF bad # {}
        THEN [ok |-> FALSE, errors |-> {fields[i].name : i \in bad}]
        ELSE [ok |-> TRUE,
              value |-> [n \in {fields[i].name : i \in 1..Len(fields)} |->
                           LET i == CHOOSE j \in 1..Len(fields) : fields[j].name = n
                           IN  FieldValue(fields[i], m)]]

\* Node = Union[TextNode, ImageNode]: the members are tried left to right
ValidateNode(m) ==
    LET t == ValidateModel(TextNodeFields, m)
    IN  IF t.ok THEN t ELSE ValidateModel(ImageNodeFields, m)

ValidateSpec(m) ==
    LET top   == ValidateModel(SpecFields, m)
        items == IF "nodes" \in DOMAIN m THEN m["nodes"] ELSE JList(<<>>)
        nodes == IF items.k = "list"
                 THEN [i \in 1..Len(items.v) |-> ValidateNode(items.v[i])]
                 ELSE <<>>
        bad   == {i \in 1..Len(nodes) : ~nodes[i].ok}
    IN  IF ~top.ok \/ items.k # "list" \/ bad # {}
        THEN [ok |-> FALSE,
              errors |-> (IF top.ok THEN {} ELSE top.errors)
                         \cup (IF items.k # "list" \/ bad # {} THEN {"nodes"} ELSE {})]
        ELSE [ok |-> TRUE,
              value |-> MkSpec(top.value.canvas_width, top.value.canvas_height,
                               top.value.background_color,
                               top.value.has_background_image,
                               top.value.background_image_description,
                               [i \in 1..Len(nodes) |-> nodes[i].value])]

\* serialization of a validated value back to a mapping, keyed by field name
Raw(ty, plain) ==
    CASE ty = "int"    -> JInt(plain)
      [] ty = "float"  -> JFloat(plain)
      [] ty = "bool"   -> JBool(plain)
      [] ty = "optstr" -> IF plain = None THEN JNull ELSE JStr(Get(plain))
      [] OTHER         -> JStr(plain)

DumpModel(fields, value) ==
    [n \in {fields[i].name : i \in 1..Len(fields)} |->
        LET i == CHOOSE j \in 1..Len(fields) : fields[j].name = n
        IN  Raw(fields[i].ty, value[n])]

DumpNode(node) ==
    IF node.type = "text" THEN DumpModel(TextNodeFields, node)
    ELSE DumpModel(ImageNodeFields, node)

DumpSpec(value) ==
    [n \in {SpecFields[i].name : i \in 1..Len(SpecFields)} \cup {"nodes"} |->
        IF n = "nodes"
        THEN JList([i \in 1..Len(value.nodes) |-> DumpNode(value.nodes[i])])
        ELSE DumpModel(SpecFields, value)[n]]

\* the same node mapping with every hyphenated style key spelled canonically
CanonicalKey(key) ==
    IF \E i \in 1..Len(TextNodeFields) : TextNodeFields[i].alias = key
    THEN LET i == CHOOSE j \in 1..Len(TextNodeFields) : TextNodeFields[j].alias = key
         IN  TextNodeFields[i].name
    ELSE key

CanonicalNode(m) ==
    [n \in {CanonicalKey(key) : key \in DOMAIN m} |->
        LET key == CHOOSE c \in DOMAIN m : CanonicalKey(c) = n IN m[key]]

CanonicalSpec(m) ==
    IF "nodes" \in DOMAIN m /\ m["nodes"].k = "list"
    THEN [m EXCEPT !["nodes"] =
            JList([i \in 1..Len(m["nodes"].v) |-> CanonicalNode(m["nodes"].v[i])])]
    ELSE m

\* input mappings
Geometry ==
    [x |-> JInt(10), y |-> JInt(20), width |-> JInt(100), height |-> JInt(50)]

HyphenatedText ==
    [type |-> JStr("text"), text |-> JStr(<<"h", "i">>)] @@ Geometry
    @@ ("font-family" :> JStr("Anton")) @@ ("font-size" :> JInt(24))
    @@ ("text-align" :> JStr("center")) @@ ("font-weight" :> JStr("bold"))
    @@ ("font-style" :> JStr("italic")) @@ ("text-decoration" :> JStr("underline"))
    @@ ("text-transform" :> JStr("uppercase"))

\* one style key hyphenated, one canonical, no type tag, an unknown key
MixedText ==
    [text |-> JStr(<<"a", "&", "b">>), font_size |-> JInt(30), layer |-> JInt(3)]
    @@ Geometry @@ ("font-family" :> JStr("Poppins"))

MinimalText == [text |-> JStr(<<"<", "b", ">">>)] @@ Geometry

TaggedImage ==
    [type |-> JStr("image"), asset_description |-> JStr(ShortDesc),
     rotation |-> JInt(90), opacity |-> JFloat(0)] @@ Geometry

\* no type tag: only ImageNode has asset_description
UntaggedImage == [asset_description |-> JStr(<<>>)] @@ Geometry

\* not valid: a tag outside text/image
VideoNode == [type |-> JStr("video"), text |-> JStr(<<"h", "i">>)] @@ Geometry

\* not valid: width missing and x of the wrong type
BrokenImage ==
    [type |-> JStr("image"), asset_description |-> JStr(ShortDesc),
     x |-> JStr("left"), y |-> JInt(0), height |-> JInt(5)]

\* a box of negative size
NegativeImage ==
    [type |-> JStr("image"), asset_description |-> JStr(ShortDesc),
     x |-> JInt(0), y |-> JInt(0), width |-> JInt(-5), height |-> JInt(-1)]

\* an opacity above 1
OverOpaqueText == [text |-> JStr(<<"h", "i">>), opacity |-> JInt(2)] @@ Geometry

NodeMappings ==
    {HyphenatedText, CanonicalNode(HyphenatedText), MixedText, MinimalText,
     TaggedImage, UntaggedImage, VideoNode, BrokenImage,
     NegativeImage, OverOpaqueText}

TopLevel ==
    [canvas_width |-> JInt(1080), canvas_height |-> JInt(1350),
     background_color |-> JStr("#ffffff"), has_background_image |-> JBool(TRUE)]

\* the mapping without one of its keys
Without(m, key) == [n \in DOMAIN m \ {key} |-> m[n]]

SpecMappings(nodes) ==
    {TopLevel @@ [nodes |-> JList(nodes)],
     TopLevel @@ [nodes |-> JList(nodes), background_image_description |-> JNull],
     TopLevel @@ [nodes |-> JList(nodes),
                  background_image_description |-> JStr(<<"s", "k", "y">>)],
     Without(TopLevel, "canvas_width") @@ [nodes |-> JList(nodes)],
     [TopLevel EXCEPT !["has_background_image"] = JStr("yes")]
        @@ [nodes |-> JList(nodes)]}

InputMappings ==
    {TopLevel}
    \cup UNION {SpecMappings(nodes) : nodes \in NodeSeqs(NodeMappings, MaxValNodes)}

\* no render is under way: the compile state is at rest
IdleCompile ==
    /\ spec = MkSpec(800, 600, "#ffffff", FALSE, None, <<>>)
    /\ call \in {c \in Calls : ~c.passed}
    /\ asset_dir = NoDir /\ fs = {}
    /\ hash_seed = 1
    /\ InitOutputs

InitValidate ==
    /\ IdleCompile
    /\ v_input \in {Some(m) : m \in InputMappings}
    /\ v_first = None /\ v_canon = None /\ v_second = None
    /\ IdleRender
    /\ IdlePoll
    /\ IdleGen
    /\ IdleScorer

\* the mapping is validated, in its own spelling and in canonical spelling
ValidateInput ==
    /\ v_input # None /\ v_first = None
    /\ v_first' = Some(ValidateSpec(Get(v_input)))
    /\ v_canon' = Some(ValidateSpec(CanonicalSpec(Get(v_input))))
    /\ UNCHANGED <<v_input, v_second>>
    /\ UNCHANGED <<compileVars, renderVars, pollVars, genVars, scorerVars>>

\* the validated Spec is serialized and the serialization validated again
RoundTrip ==
    /\ v_first # None /\ Get(v_first).ok /\ v_second = None
    /\ v_second' = Some(ValidateSpec(DumpSpec(Get(v_first).value)))
    /\ UNCHANGED <<v_input, v_first, v_canon>>
    /\ UNCHANGED <<compileVars, renderVars, pollVars, genVars, scorerVars>>

NextValidate == ValidateInput \/ RoundTrip

SpecValidate == InitValidate /\ [][NextValidate]_vars

\* C20: validating the serialization of a validated Spec gives a Spec equal to
\* it field for field, nodes in the same order; and a mapping whose text nodes
\* use hyphenated style keys validates to the same result as the mapping with
\* the canonical keys.
C20_RoundTripAndAliases ==
    /\ v_second # None => v_second = v_first
    /\ v_canon # None => v_canon = v_first

\* a hyphenated text node before an untagged image node, round-tripped
C20_Witness ==
    /\ v_second # None /\ Get(v_second).ok
    /\ v_first # None /\ Get(v_first).ok
    /\ v_canon # None /\ Get(v_canon).ok
    /\ "nodes" \in DOMAIN Get(v_input)
    /\ Len(Get(v_input)["nodes"].v) = 2
    /\ "font-family" \in DOMAIN Get(v_input)["nodes"].v[1]
    /\ "type" \notin DOMAIN Get(v_input)["nodes"].v[2]
    /\ Get(v_first).value.nodes[1].font_family = "Anton"
    /\ Get(v_first).value.nodes[2].type = "image"

\* the nodes of the Spec the mapping validated to
ValidNodes == Get(v_first).value.nodes

(* C21: every node of a Spec that passed validation has width >= 0,
   height >= 0 and an opacity from 0 to 1: a mapping with a negative size or
   an opacity outside that range does not validate. *)
C21_GeometryInRange ==
    v_first # None /\ Get(v_first).ok =>
        \A i \in 1..Len(ValidNodes) :
            /\ ValidNodes[i].width >= 0
            /\ ValidNodes[i].height >= 0
            /\ 0 <= ValidNodes[i].opacity /\ ValidNodes[i].opacity <= 1

-----------------------------------------------------------------------------
(* render_image statement by statement, inside the loop of render_all_designs *)

\* the spec.json files the loop may find: two valid designs and one that
\* does not validate (canvas_width is required)
DesignA == TopLevel @@ [nodes |-> JList(<<HyphenatedText>>)]

DesignB == TopLevel @@ [nodes |-> JList(<<MinimalText, TaggedImage>>)]

DesignInvalid == Without(TopLevel, "canvas_width") @@ [nodes |-> JList(<<MinimalText>>)]

SpecFiles == {DesignA, DesignB, DesignInvalid}

\* spec_data.get(key, default) on the mapping read from spec.json
GetOr(m, key, default) == IF key \in DOMAIN m THEN ValueOf(m[key]) ELSE default

RenderSteps_MkdirFirst ==
    <<"mkdir", "validate", "generate", "write_html", "start", "launch", "new_page",
      "set_content", "wait", "screenshot", "close", "exit">>

\* the statements of render_image in program order
RenderSteps ==
    <<"validate", "mkdir", "generate", "write_html", "start", "launch", "new_page",
      "set_content", "wait", "screenshot", "close", "exit">>

StepAfter_SkipWait(pc) ==
    LET i == CHOOSE j \in 1..Len(RenderSteps) : RenderSteps[j] = pc
    IN  IF RenderSteps[i + 1] = "wait" THEN RenderSteps[i + 2] ELSE RenderSteps[i + 1]

\* the statement that follows in program order
StepAfter(pc) ==
    LET i == CHOOSE j \in 1..Len(RenderSteps) : RenderSteps[j] = pc
    IN  RenderSteps[i + 1]

\* the statements inside the with block
WithBody == {"launch", "new_page", "set_content", "wait", "screenshot", "close"}

\* the engine calls, each of which may raise
EngineSteps == {"start"} \cup WithBody

EnginesAfterExit_Leak(engines) == engines

\* leaving the with block stops the driver, and with it every browser it started
EnginesAfterExit(engines) == {}

Engine(run, design) ==
    [run |-> run, design |-> design, viewport |-> None, content |-> None,
     settled |-> FALSE, captures |-> 0]

\* the browser launched by the call under way
Browser == CHOOSE e \in alive : e.run = b_runs /\ e.design = b_i

Bitmap(e, complete) ==
    [doc |-> Get(e.content), viewport |-> Get(e.viewport), settled |-> e.settled,
     complete |-> complete]

InitRender ==
    /\ IdleCompile
    /\ IdleValidate
    /\ IdleRender
    /\ IdlePoll
    /\ IdleGen
    /\ IdleScorer

\* python test_render.py --all: render_all_designs begins
StartScript ==
    /\ b_pc \in {"idle", "done", "aborted"}
    /\ b_runs < MaxScriptRuns
    /\ b_pc' = "loop" /\ b_i' = 1 /\ b_runs' = b_runs + 1
    /\ log' = [d \in Designs |-> "pending"]
    /\ UNCHANGED <<r_pc, r_input, r_spec, r_html, r_failed, r_before,
                   playwright, alive, disk>>
    /\ UNCHANGED <<compileVars, validateVars, pollVars, genVars, scorerVars>>

\* the loop reads the next spec.json and calls render_image
CallRenderImage ==
    /\ b_pc = "loop" /\ b_i <= MaxDesigns
    /\ \E m \in SpecFiles : r_input' = Some(m)
    /\ b_pc' = "render" /\ r_pc' = RenderSteps[1]
    /\ r_spec' = None /\ r_html' = None /\ r_failed' = None
    /\ r_before' = disk[b_i]
    /\ UNCHANGED <<b_i, b_runs, log, playwright, alive, disk>>
    /\ UNCHANGED <<compileVars, validateVars, pollVars, genVars, scorerVars>>

\* Spec(** spec): the mapping is validated, or the call raises
Validate ==
    /\ b_pc = "render" /\ r_pc = "validate"
    /\ LET res == ValidateSpec(Get(r_input))
       IN  IF res.ok
           THEN /\ r_spec' = Some(res.value)
                /\ r_pc' = StepAfter("validate")
                /\ UNCHANGED r_failed
           ELSE /\ r_failed' = Some("validate")
                /\ r_pc' = "raise"
                /\ UNCHANGED r_spec
    /\ UNCHANGED <<b_pc, b_i, b_runs, log, r_input, r_html, r_before,
                   playwright, alive, disk>>
    /\ UNCHANGED <<compileVars, validateVars, pollVars, genVars, scorerVars>>

Mkdir ==
    /\ b_pc = "render" /\ r_pc = "mkdir"
    /\ disk' = [disk EXCEPT ![b_i].dir = TRUE]
    /\ r_pc' = StepAfter("mkdir")
    /\ UNCHANGED <<b_pc, b_i, b_runs, log, r_input, r_spec, r_html, r_failed,
                   r_before, playwright, alive>>
    /\ UNCHANGED <<compileVars, validateVars, pollVars, genVars, scorerVars>>

\* render_all_designs passes the canvas of the mapping, asset_dir None
Generate ==
    /\ b_pc = "render" /\ r_pc = "generate"
    /\ r_html' = Some(GenerateHtml(Get(r_spec),
                                   GetOr(Get(r_input), "canvas_width", DefaultCanvasWidth),
                                   GetOr(Get(r_input), "canvas_height", DefaultCanvasHeight),
                                   NoDir, {}, hash_seed))
    /\ r_pc' = StepAfter("generate")
    /\ UNCHANGED <<b_pc, b_i, b_runs, log, r_input, r_spec, r_failed, r_before,
                   playwright, alive, disk>>
    /\ UNCHANGED <<compileVars, validateVars, pollVars, genVars, scorerVars>>

WriteHtml ==
    /\ b_pc = "render" /\ r_pc = "write_html"
    /\ disk' = [disk EXCEPT ![b_i].html = r_html]
    /\ r_pc' = StepAfter("write_html")
    /\ UNCHANGED <<b_pc, b_i, b_runs, log, r_input, r_spec, r_html, r_failed,
                   r_before, playwright, alive>>
    /\ UNCHANGED <<compileVars, validateVars, pollVars, genVars, scorerVars>>

\* sync_playwright() enters the with block: the driver is started
StartPlaywright ==
    /\ b_pc = "render" /\ r_pc = "start"
    /\ playwright' = "running"
    /\ r_pc' = StepAfter("start")
    /\ UNCHANGED <<b_pc, b_i, b_runs, log, r_input, r_spec, r_html, r_failed,
                   r_before, alive, disk>>
    /\ UNCHANGED <<compileVars, validateVars, pollVars, genVars, scorerVars>>

Launch ==
    /\ b_pc = "render" /\ r_pc = "launch"
    /\ alive' = alive \cup {Engine(b_runs, b_i)}
    /\ r_pc' = StepAfter("launch")
    /\ UNCHANGED <<b_pc, b_i, b_runs, log, r_input, r_spec, r_html, r_failed,
                   r_before, playwright, disk>>
    /\ UNCHANGED <<compileVars, validateVars, pollVars, genVars, scorerVars>>

\* the one statement of the with block that the browser is at
BrowserStep(pc, after) ==
    /\ b_pc = "render" /\ r_pc = pc
    /\ alive' = (alive \ {Browser}) \cup {after}
    /\ r_pc' = StepAfter(pc)
    /\ UNCHANGED <<b_pc, b_i, b_runs, log, r_input, r_spec, r_html, r_failed,
                   r_before, playwright>>
    /\ UNCHANGED <<compileVars, validateVars, pollVars, genVars, scorerVars>>

NewPage ==
    /\ r_pc = "new_page"
    /\ BrowserStep("new_page",
           [Browser EXCEPT !.viewport =
               Some([width |-> GetOr(Get(r_input), "canvas_width", DefaultCanvasWidth),
                     height |-> GetOr(Get(r_input), "canvas_height", DefaultCanvasHeight)])])
    /\ UNCHANGED disk

SetContent ==
    /\ r_pc = "set_content"
    /\ BrowserStep("set_content", [Browser EXCEPT !.content = r_html])
    /\ UNCHANGED disk

\* page.wait_for_timeout(500)
WaitForFonts ==
    /\ r_pc = "wait"
    /\ BrowserStep("wait", [Browser EXCEPT !.settled = TRUE])
    /\ UNCHANGED disk

\* the page is captured and the bytes are written to output_path
Screenshot ==
    /\ r_pc = "screenshot"
    /\ BrowserStep("screenshot", [Browser EXCEPT !.captures = @ + 1])
    /\ disk' = [disk EXCEPT ![b_i].png = Some(Bitmap(Browser, TRUE))]

\* the capture succeeded and the write to output_path stopped half way
ScreenshotWriteFails ==
    /\ b_pc = "render" /\ r_pc = "screenshot"
    /\ disk' = [disk EXCEPT ![b_i].png = Some(Bitmap(Browser, FALSE))]
    /\ r_failed' = Some("screenshot")
    /\ r_pc' = "exit"
    /\ UNCHANGED <<b_pc, b_i, b_runs, log, r_input, r_spec, r_html, r_before,
                   playwright, alive>>
    /\ UNCHANGED <<compileVars, validateVars, pollVars, genVars, scorerVars>>

CloseBrowser ==
    /\ b_pc = "render" /\ r_pc = "close"
    /\ alive' = alive \ {Browser}
    /\ r_pc' = StepAfter("close")
    /\ UNCHANGED <<b_pc, b_i, b_runs, log, r_input, r_spec, r_html, r_failed,
                   r_before, playwright, disk>>
    /\ UNCHANGED <<compileVars, validateVars, pollVars, genVars, scorerVars>>

\* an engine call raises: inside the with block the exception leaves through
\* the exit of the block, at sync_playwright() itself there is no block yet
StepRaises ==
    /\ b_pc = "render" /\ r_pc \in EngineSteps
    /\ r_failed' = Some(r_pc)
    /\ r_pc' = IF r_pc \in WithBody THEN "exit" ELSE "raise"
    /\ UNCHANGED <<b_pc, b_i, b_runs, log, r_input, r_spec, r_html, r_before,
                   playwright, alive, disk>>
    /\ UNCHANGED <<compileVars, validateVars, pollVars, genVars, scorerVars>>

\* the with block is left, normally or by an exception
ExitPlaywright ==
    /\ b_pc = "render" /\ r_pc = "exit"
    /\ playwright' = "stopped"
    /\ alive' = EnginesAfterExit(alive)
    /\ r_pc' = IF r_failed = None THEN "return" ELSE "raise"
    /\ UNCHANGED <<b_pc, b_i, b_runs, log, r_input, r_spec, r_html, r_failed,
                   r_before, disk>>
    /\ UNCHANGED <<compileVars, validateVars, pollVars, genVars, scorerVars>>

\* render_image returned: the loop goes on with the next design
ReturnToLoop ==
    /\ b_pc = "render" /\ r_pc = "return"
    /\ log' = [log EXCEPT ![b_i] = "ok"]
    /\ b_pc' = "loop" /\ b_i' = b_i + 1 /\ r_pc' = "idle"
    /\ UNCHANGED <<b_runs, r_input, r_spec, r_html, r_failed, r_before,
                   playwright, alive, disk>>
    /\ UNCHANGED <<compileVars, validateVars, pollVars, genVars, scorerVars>>

\* render_image raised: nothing in render_all_designs or the script catches it
Propagate ==
    /\ b_pc = "render" /\ r_pc = "raise"
    /\ log' = [log EXCEPT ![b_i] = "failed"]
    /\ b_pc' = "aborted" /\ r_pc' = "idle"
    /\ UNCHANGED <<b_i, b_runs, r_input, r_spec, r_html, r_failed, r_before,
                   playwright, alive, disk>>
    /\ UNCHANGED <<compileVars, validateVars, pollVars, genVars, scorerVars>>

\* the glob is exhausted
LoopEnd ==
    /\ b_pc = "loop" /\ b_i > MaxDesigns
    /\ b_pc' = "done"
    /\ UNCHANGED <<b_i, b_runs, log, r_pc, r_input, r_spec, r_html, r_failed,
                   r_before, playwright, alive, disk>>
    /\ UNCHANGED <<compileVars, validateVars, pollVars, genVars, scorerVars>>

NextRender ==
    \/ StartScript \/ CallRenderImage \/ LoopEnd
    \/ Validate \/ Mkdir \/ Generate \/ WriteHtml
    \/ StartPlaywright \/ Launch \/ NewPage \/ SetContent \/ WaitForFonts
    \/ Screenshot \/ ScreenshotWriteFails \/ CloseBrowser
    \/ StepRaises \/ ExitPlaywright
    \/ ReturnToLoop \/ Propagate

SpecRender == InitRender /\ [][NextRender]_vars

-----------------------------------------------------------------------------
(* Claims about render_image and the batch loop *)

\* the call of render_image under way, or the last one, ended by an exception
CallFailed ==
    /\ r_failed # None
    /\ b_pc \in {"render", "aborted"}
    /\ r_pc \in {"raise", "idle"}

\* the call of render_image under way is past its last statement
CallEnded == r_input # None /\ r_pc \in {"return", "raise", "idle"}

(* C11: once render_image has returned or raised, no browser it started is
   alive and the driver is stopped, on the success path and on every failure
   path; a failure never ends as a return. *)
C11_EngineTornDown ==
    /\ CallEnded => alive = {} /\ playwright = "stopped"
    /\ r_failed # None => r_pc # "return" /\ log[b_i] # "ok"

\* a call that failed inside the with block, with a browser launched, has ended
C11_Witness ==
    /\ CallFailed /\ r_pc = "raise"
    /\ Get(r_failed) \in WithBody \ {"launch"}
    /\ alive = {}

(* C12: after a failed render_image the bitmap at output_path is absent or
   exactly what was there before the call. *)
C12_FailedRenderKeepsBitmap ==
    CallFailed => disk[b_i].png = r_before.png

(* C13: between calls of render_image, wherever the bitmap and the markup
   file of a design both exist, the markup file is the document that was
   loaded to produce the bitmap. *)
C13_HtmlMatchesBitmap ==
    r_pc = "idle" =>
        \A d \in Designs :
            disk[d].html # None /\ disk[d].png # None
                => Get(disk[d].png).doc = Get(disk[d].html)

(* C14: a mapping that does not validate makes render_image fail before any
   effect: no directory is created, no markup is compiled or written, no
   driver is started and no browser is launched. *)
C14_ValidationBeforeEffects ==
    CallFailed /\ r_failed = Some("validate") =>
        /\ disk[b_i] = r_before
        /\ r_html = None
        /\ alive = {} /\ playwright = "stopped"

\* a mapping without canvas_width was refused for a design with no files yet
C14_Witness ==
    /\ CallFailed /\ r_failed = Some("validate")
    /\ ~ValidateSpec(Get(r_input)).ok
    /\ r_before = NoFiles
    /\ b_pc = "aborted"

(* C15: in the batch at most one browser is alive at any time, it is the one
   of the render under way, none is alive between two renders, and none
   captures more than once. *)
C15_OneEngineAtATime ==
    /\ Cardinality(alive) <= 1
    /\ b_pc # "render" => alive = {}
    /\ \A e \in alive : e.run = b_runs /\ e.design = b_i /\ e.captures <= 1

\* the browser of the second design is alive after the first design was rendered
C15_Witness ==
    /\ b_i = 2 /\ log[1] = "ok"
    /\ disk[1].png # None
    /\ alive # {}
    /\ \A e \in alive : e.design = 2 /\ e.content # None

(* C16: when the batch has ended, every design was processed: a failure of
   one design does not keep the remaining ones from being rendered. *)
C16_FailureIsolated ==
    b_pc \in {"done", "aborted"} => \A d \in Designs : log[d] # "pending"

\* the bitmap of some design is written in this step
BitmapWritten == \E d \in Designs : disk'[d].png # disk[d].png

\* how far a browser has got: each step needs the one before it
StepsInOrder(e) ==
    /\ e.content # None => e.viewport # None
    /\ e.settled => e.content # None
    /\ e.captures > 0 => e.settled
    /\ e.captures <= 1

(* C23: within one render_image call the engine steps happen in the order
   launch, open page at the viewport size, load the document, wait the settle
   interval, capture, close, each at most once; a bitmap is only written by a
   live browser that has the document loaded and has waited and has not
   captured before, and every bitmap shows a loaded, settled page. *)
C23_EngineStepsInOrder ==
    /\ [](\A e \in alive : StepsInOrder(e))
    /\ [](\A d \in Designs : disk[d].png # None => Get(disk[d].png).settled)
    /\ [][BitmapWritten =>
            /\ alive # {}
            /\ Browser.content # None /\ Browser.settled /\ Browser.captures = 0
            /\ disk'[b_i].png # None
            /\ Get(disk'[b_i].png).doc = Get(r_html)]_vars

\* a call went through all six engine steps and returns
C23_Witness ==
    /\ r_pc = "return" /\ r_failed = None
    /\ alive = {}
    /\ disk[b_i].png # None
    /\ Get(disk[b_i].png).complete /\ Get(disk[b_i].png).settled
    /\ Get(disk[b_i].png).doc = Get(r_html)

-----------------------------------------------------------------------------
(* The generation clients: submit a job, then poll its status *)

MaxPolls == 3

SyncClients == {"edit_image", "flux_generate", "remove_background", "kontext_edit"}

Clients == SyncClients \cup {"kontext_edit_async"}

\* what the provider may answer to the submission
PostResponses ==
    {[status |-> 200, body |-> [images |-> "url"]],
     [status |-> 201, body |-> [request_id |-> "r"]],
     [status |-> 202, body |-> [status_url |-> "u1"]],
     [status |-> 202, body |-> [response_url |-> "u2"]],
     [status |-> 422, body |-> [detail |-> "bad prompt"]],
     [status |-> 500, body |-> [detail |-> "server error"]]}

\* what the provider may answer to a status request
StatusResponses ==
    {[status |-> 200, body |-> [status |-> "IN_PROGRESS"]],
     [status |-> 200, body |-> [logs |-> "queued"]],
     [status |-> 200, body |-> [status |-> "COMPLETED", images |-> "url"]],
     [status |-> 200, body |-> [status |-> "", state |-> "succeeded"]],
     [status |-> 200, body |-> [status |-> "FAILED"]],
     [status |-> 200, body |-> [state |-> "error"]],
     [status |-> 500, body |-> [detail |-> "server error"]]}

\* str.lower() on the status words
Lower(w) ==
    CASE w = "IN_PROGRESS" -> "in_progress"
      [] w = "COMPLETED" -> "completed"
      [] w = "FAILED" -> "failed"
      [] OTHER -> w

\* (data.get("status") or data.get("state") or "").lower()
StateOf(data) ==
    LET status == IF "status" \in DOMAIN data THEN data.status ELSE ""
        state  == IF "state" \in DOMAIN data THEN data.state ELSE ""
    IN  Lower(IF status # "" THEN status ELSE state)

SuccessStates == {"completed", "success", "succeeded"}

FailureStates == {"failed", "error"}

\* job.get("status_url") or job.get("response_url")
UrlOf(job) ==
    IF "status_url" \in DOMAIN job THEN job.status_url ELSE job.response_url

\* raise_for_status raises for the statuses from 400 on
IsHttpError(status) == status >= 400

\* an exception and the provider payload it holds, if any
Error(type, payload) == [type |-> type, payload |-> payload]

\* requests.HTTPError holds the response; aiohttp's ClientResponseError holds
\* status, reason and headers, and the body is released
HttpError(kind, resp) ==
    IF kind \in SyncClients
    THEN Error("HTTPError", Some(resp.body))
    ELSE Error("ClientResponseError", None)

Inc(n) == IF n < MaxPolls THEN n + 1 ELSE n

\* where the polling loop begins and begins again: the asynchronous client
\* sleeps first, the synchronous ones request at once
LoopHead(kind) == IF kind \in SyncClients THEN "request" ELSE "sleep"

InitPoll ==
    /\ IdleCompile
    /\ IdleValidate
    /\ IdleRender
    /\ IdlePoll
    /\ IdleGen
    /\ IdleScorer

Ends(pc, result, error) ==
    /\ c_pc' = pc /\ c_result' = result /\ c_error' = error
    /\ UNCHANGED <<c_kind, c_url, c_gets, c_waits>>

\* the client is called and posts the job
Submit ==
    /\ c_pc = "idle"
    /\ \E kind \in Clients : c_kind' = Some(kind)
    /\ c_pc' = "submitted"
    /\ UNCHANGED <<c_url, c_resp, c_gets, c_waits, c_result, c_error>>
    /\ UNCHANGED <<compileVars, validateVars, renderVars, genVars, scorerVars>>

\* the provider answers the submission
PostAnswered ==
    /\ c_pc = "submitted"
    /\ \E resp \in PostResponses :
        LET kind == Get(c_kind)
        IN  /\ c_resp' = Some(resp)
            /\ IF kind \notin SyncClients /\ resp.status = 422
               THEN Ends("raised", None, Some(Error("Exception", Some(resp.body))))
               ELSE IF IsHttpError(resp.status)
               THEN Ends("raised", None, Some(HttpError(kind, resp)))
               ELSE IF resp.status = 200
               THEN Ends("returned", Some(resp.body), None)
               ELSE IF resp.status = 202
               THEN /\ c_url' = Some(UrlOf(resp.body))
                    /\ c_pc' = LoopHead(kind)
                    /\ UNCHANGED <<c_kind, c_gets, c_waits, c_result, c_error>>
               ELSE IF kind \in SyncClients
               THEN Ends("raised", None, Some(Error("RuntimeError", Some(resp.body))))
               ELSE Ends("returned", None, None)
    /\ UNCHANGED <<compileVars, validateVars, renderVars, genVars, scorerVars>>

\* await asyncio.sleep(2)
Sleep ==
    /\ c_pc = "sleep"
    /\ c_waits' = Inc(c_waits)
    /\ c_pc' = "request"
    /\ UNCHANGED <<c_kind, c_url, c_resp, c_gets, c_result, c_error>>
    /\ UNCHANGED <<compileVars, validateVars, renderVars, genVars, scorerVars>>

\* the status request is sent
RequestStatus ==
    /\ c_pc = "request"
    /\ c_gets' = Inc(c_gets)
    /\ c_pc' = "status"
    /\ UNCHANGED <<c_kind, c_url, c_resp, c_waits, c_result, c_error>>
    /\ UNCHANGED <<compileVars, validateVars, renderVars, genVars, scorerVars>>

\* the provider answers the status request
StatusAnswered ==
    /\ c_pc = "status"
    /\ \E resp \in StatusResponses :
        LET kind == Get(c_kind)
            data == resp.body
        IN  /\ c_resp' = Some(resp)
            /\ IF IsHttpError(resp.status)
               THEN Ends("raised", None, Some(HttpError(kind, resp)))
               ELSE IF StateOf(data) \in SuccessStates
               THEN Ends("returned", Some(data), None)
               ELSE IF StateOf(data) \in FailureStates
               THEN Ends("raised", None, Some(Error("RuntimeError", Some(data))))
               ELSE /\ c_pc' = LoopHead(kind)
                    /\ UNCHANGED <<c_kind, c_url, c_gets, c_waits, c_result, c_error>>
    /\ UNCHANGED <<compileVars, validateVars, renderVars, genVars, scorerVars>>

\* no answer arrives: the request times out or the connection fails
NoAnswer ==
    /\ c_pc \in {"submitted", "status"}
    /\ c_resp' = None
    /\ Ends("raised", None, Some(Error("Timeout", None)))
    /\ UNCHANGED <<compileVars, validateVars, renderVars, genVars, scorerVars>>

NextPoll ==
    Submit \/ PostAnswered \/ Sleep \/ RequestStatus \/ StatusAnswered \/ NoAnswer

SpecPoll == InitPoll /\ [][NextPoll]_vars

\* the client keeps running and every request is answered or times out
SpecPollFair == SpecPoll /\ WF_vars(NextPoll)

-----------------------------------------------------------------------------
(* Claims about the generation clients *)

CallOver == c_pc \in {"returned", "raised"}

\* the last response received is a failure: an HTTP error status, or a
\* polled job status of failure
FailureAnswer ==
    /\ c_resp # None
    /\ \/ IsHttpError(Get(c_resp).status)
       \/ c_gets > 0 /\ StateOf(Get(c_resp).body) \in FailureStates

\* the last response received is a success: 200 to the submission, or a
\* polled job status of success
SuccessAnswer ==
    /\ c_resp # None
    /\ ~IsHttpError(Get(c_resp).status)
    /\ IF c_gets > 0
       THEN StateOf(Get(c_resp).body) \in SuccessStates
       ELSE Get(c_resp).status = 200

(* C17: every call of a generation client ends for the caller, whatever the
   provider answers to the status polls: it never polls forever. *)
C17_PollingEnds == <>CallOver

(* C18: a call that received a failure status or an HTTP error status ends
   with an error that holds the provider payload of that response, and a
   payload is returned only after a success status was received. *)
C18_FailureCarriesPayload ==
    /\ CallOver /\ FailureAnswer =>
          /\ c_pc = "raised"
          /\ Get(c_error).payload = Some(Get(c_resp).body)
    /\ c_pc = "returned" /\ c_result # None =>
          /\ SuccessAnswer
          /\ c_result = Some(Get(c_resp).body)

(* C19: a wait separates each status request from the next, so that two
   status requests are never sent back to back, and the polling goes on
   exactly while no success or failure status was received. *)
C19_FixedWaitBetweenPolls ==
    /\ c_gets >= 2 => c_waits >= c_gets - 1
    /\ c_pc \in {"sleep", "request"} /\ c_gets > 0 =>
          StateOf(Get(c_resp).body) \notin SuccessStates \cup FailureStates

-----------------------------------------------------------------------------
(* test_render.py --all --gen-images: concurrent asset generation, then the renders *)

MaxGenDesigns == 2

GenDesigns == 1..MaxGenDesigns

\* an image node tagged as such, with an empty description
EmptyTagged == [TaggedImage EXCEPT !["asset_description"] = JStr(<<>>)]

\* a background description, a text node and one image node
GenBackground ==
    TopLevel @@ [nodes |-> JList(<<MinimalText, TaggedImage>>),
                 background_image_description |-> JStr(<<"s", "k", "y">>)]

\* an image node without the type key before a tagged one
GenUntagged == TopLevel @@ [nodes |-> JList(<<UntaggedImage, TaggedImage>>)]

\* an image node with an empty description before a described one
GenEmpty == TopLevel @@ [nodes |-> JList(<<EmptyTagged, TaggedImage>>)]

\* two described image nodes
GenTwo == TopLevel @@ [nodes |-> JList(<<TaggedImage, MinimalText, TaggedImage>>)]

GenSpecFiles == <<GenBackground, GenUntagged, GenEmpty, GenTwo>>

\* truth value of a JSON value in a Python condition
JTruthy(raw) ==
    CASE raw.k = "bool" -> raw.bool
      [] raw.k = "str"  -> raw.str # <<>>
      [] raw.k \in {"int", "float"} -> raw.num # 0
      [] raw.k = "list" -> raw.v # <<>>
      [] OTHER -> FALSE

\* spec_data.get(key), None when the key is missing
MGet(m, key) == IF key \in DOMAIN m THEN m[key] ELSE JNull

\* n.get('type') == 'image'
IsImageMapping(node) == MGet(node, "type") = JStr("image")

\* spec_data.get('nodes', [])
NodeMappingsOf(m) == IF "nodes" \in DOMAIN m THEN m["nodes"].v ELSE <<>>

\* the positions in nodes of the members of image_nodes
ImageMappingIdx(nodes) == {n \in 1..Len(nodes) : IsImageMapping(nodes[n])}

\* enumerate(image_nodes, start=1): the idx of the node at position n
EnumIdx(nodes, n) == Cardinality({j \in ImageMappingIdx(nodes) : j <= n})

\* output_dir / design_name
GenDir(d) == <<"reconstructions", d>>

GenAssetPath_Unnumbered(idx) == [name |-> <<"asset-", 1>>, suffix |-> ".png"]

\* output_dir / f"asset-{idx}.png"
GenAssetPath(idx) == [name |-> <<"asset-", idx>>, suffix |-> ".png"]

GenTask(d, kind, idx, node, path) ==
    [design |-> d, kind |-> kind, idx |-> idx, node |-> node, path |-> path,
     pc |-> "edit"]

\* the coroutines generate_assets appends to tasks
TasksOf(d, m) ==
    LET nodes == NodeMappingsOf(m)
    IN  (IF /\ JTruthy(MGet(m, "has_background_image"))
            /\ JTruthy(MGet(m, "background_image_description"))
         THEN {GenTask(d, "background", 0, 0, BackgroundPath)}
         ELSE {})
        \cup
        {GenTask(d, "asset", EnumIdx(nodes, n), n, GenAssetPath(EnumIdx(nodes, n))) :
            n \in {j \in ImageMappingIdx(nodes) :
                      JTruthy(IF "asset_description" \in DOMAIN nodes[j]
                              THEN nodes[j]["asset_description"] ELSE JStr(<<>>))}}

TaskOver == {"done", "failed", "cancelled"}

GatherDone_NoWait(tasks) == TRUE

\* the awaited gather of the tasks has returned: every task is over
GatherDone(tasks) == \A t \in tasks : t.pc \in TaskOver

\* the files of the directory of a design
FilesOf(d) == {w.path : w \in {x \in g_writes : x.design = d}}

InitGen ==
    /\ IdleCompile
    /\ IdleValidate
    /\ IdleRender
    /\ IdlePoll
    /\ IdleGen
    /\ IdleScorer

\* every generate_assets ran up to its gather
AllStarted == \A d \in GenDesigns : g_gen[d] # "created"

\* the design whose generate_assets runs next: gather starts them in order
NextToStart(d) ==
    /\ g_gen[d] = "created"
    /\ \A e \in GenDesigns : e < d => g_gen[e] # "created"

Moves(t, pc) == g_tasks' = (g_tasks \ {t}) \cup {[t EXCEPT !.pc = pc]}

\* asyncio.run(generate_all_assets()): the spec.json of every design is read
StartGenerate ==
    /\ g_pc = "idle"
    /\ \E k \in 0..(Len(GenSpecFiles) - 1) :
          g_specs' = [d \in GenDesigns |-> GenSpecFiles[((d + k) % Len(GenSpecFiles)) + 1]]
    /\ g_gen' = [d \in GenDesigns |-> "created"]
    /\ g_docs' = [d \in GenDesigns |-> None]
    /\ g_pc' = "generating"
    /\ UNCHANGED <<g_tasks, g_writes>>
    /\ UNCHANGED <<compileVars, validateVars, renderVars, pollVars, scorerVars>>

\* generate_assets of a design reads the source image and gathers its tasks
StartGenerateAssets ==
    /\ g_pc = "generating"
    /\ \E d \in GenDesigns :
          /\ NextToStart(d)
          /\ g_gen' = [g_gen EXCEPT ![d] = "running"]
          /\ g_tasks' = g_tasks \cup TasksOf(d, g_specs[d])
    /\ UNCHANGED <<g_pc, g_specs, g_writes, g_docs>>
    /\ UNCHANGED <<compileVars, validateVars, renderVars, pollVars, scorerVars>>

\* no source image is found for the design: a warning, no tasks
NoSourceImage ==
    /\ g_pc = "generating"
    /\ \E d \in GenDesigns :
          /\ NextToStart(d)
          /\ g_gen' = [g_gen EXCEPT ![d] = "skipped"]
    /\ UNCHANGED <<g_pc, g_specs, g_tasks, g_writes, g_docs>>
    /\ UNCHANGED <<compileVars, validateVars, renderVars, pollVars, scorerVars>>

\* reading the source image raises: the exception leaves both gathers and
\* asyncio.run, which cancels the tasks still pending before it returns
SourceUnreadable ==
    /\ g_pc = "generating"
    /\ \E d \in GenDesigns :
          /\ NextToStart(d)
          /\ g_gen' = [g_gen EXCEPT ![d] = "failed"]
    /\ g_tasks' = {IF t.pc \in TaskOver THEN t ELSE [t EXCEPT !.pc = "cancelled"] :
                      t \in g_tasks}
    /\ g_pc' = "aborted"
    /\ UNCHANGED <<g_specs, g_writes, g_docs>>
    /\ UNCHANGED <<compileVars, validateVars, renderVars, pollVars, scorerVars>>

\* kontext_edit_async returned a result with an image
EditReturnsImage ==
    /\ g_pc = "generating" /\ AllStarted
    /\ \E t \in g_tasks : t.pc = "edit" /\ Moves(t, "download")
    /\ UNCHANGED <<g_pc, g_specs, g_gen, g_writes, g_docs>>
    /\ UNCHANGED <<compileVars, validateVars, renderVars, pollVars, scorerVars>>

\* download_image: the content is read and written to the path of the task
DownloadWritten ==
    /\ g_pc = "generating" /\ AllStarted
    /\ \E t \in g_tasks :
          /\ t.pc = "download"
          /\ Moves(t, "done")
          /\ g_writes' = g_writes \cup
                {[design |-> t.design, dir |-> GenDir(t.design), path |-> t.path,
                  kind |-> t.kind, node |-> t.node,
                  payload |-> <<"image", t.design, t.kind, t.node>>]}
    /\ UNCHANGED <<g_pc, g_specs, g_gen, g_docs>>
    /\ UNCHANGED <<compileVars, validateVars, renderVars, pollVars, scorerVars>>

\* the edit or the download raises, or no image is returned: the task's
\* except clause prints and the task ends without a file
TaskFails ==
    /\ g_pc = "generating" /\ AllStarted
    /\ \E t \in g_tasks : t.pc \in {"edit", "download"} /\ Moves(t, "failed")
    /\ UNCHANGED <<g_pc, g_specs, g_gen, g_writes, g_docs>>
    /\ UNCHANGED <<compileVars, validateVars, renderVars, pollVars, scorerVars>>

\* asyncio.run has returned: render_all_designs begins
FinishGenerate ==
    /\ g_pc = "generating" /\ AllStarted
    /\ GatherDone(g_tasks)
    /\ g_pc' = "rendering"
    /\ UNCHANGED <<g_specs, g_gen, g_tasks, g_writes, g_docs>>
    /\ UNCHANGED <<compileVars, validateVars, renderVars, pollVars, scorerVars>>

\* render_image of the next design, with its output directory as asset_dir
RenderDesign ==
    /\ g_pc = "rendering"
    /\ \E d \in GenDesigns :
          /\ g_docs[d] = None
          /\ \A e \in GenDesigns : e < d => g_docs[e] # None
          /\ LET m   == g_specs[d]
                 res == ValidateSpec(m)
             IN  IF res.ok
                 THEN /\ g_docs' = [g_docs EXCEPT ![d] =
                            Some(GenerateHtml(res.value,
                                     GetOr(m, "canvas_width", DefaultCanvasWidth),
                                     GetOr(m, "canvas_height", DefaultCanvasHeight),
                                     "assets", FilesOf(d), hash_seed))]
                      /\ UNCHANGED g_pc
                 ELSE /\ g_pc' = "aborted"
                      /\ UNCHANGED g_docs
    /\ UNCHANGED <<g_specs, g_gen, g_tasks, g_writes>>
    /\ UNCHANGED <<compileVars, validateVars, renderVars, pollVars, scorerVars>>

FinishRender ==
    /\ g_pc = "rendering"
    /\ \A d \in GenDesigns : g_docs[d] # None
    /\ g_pc' = "finished"
    /\ UNCHANGED <<g_specs, g_gen, g_tasks, g_writes, g_docs>>
    /\ UNCHANGED <<compileVars, validateVars, renderVars, pollVars, scorerVars>>

NextGen ==
    \/ StartGenerate \/ StartGenerateAssets \/ NoSourceImage \/ SourceUnreadable
    \/ EditReturnsImage \/ DownloadWritten \/ TaskFails
    \/ FinishGenerate \/ RenderDesign \/ FinishRender

SpecGen == InitGen /\ [][NextGen]_vars

-----------------------------------------------------------------------------
(* Claims about the generation run *)

SameFile(a, b) == a.design = b.design /\ a.path = b.path

(* C22: no two generation tasks write the same file: the tasks of one design
   have pairwise distinct paths, different designs have different
   directories, and every written file was written by exactly one task. *)
C22_NoSharedAssetFile ==
    /\ \A t, u \in g_tasks : SameFile(t, u) => t.kind = u.kind /\ t.node = u.node
    /\ \A d, e \in GenDesigns : d # e => GenDir(d) # GenDir(e)
    /\ \A w, x \in g_writes : w.dir = x.dir /\ w.path = x.path => w = x

\* two tasks of one design and a task of another design have written
C22_Witness ==
    \E w, x, y \in g_writes :
        /\ w.design = x.design /\ w.kind = "asset" /\ x.kind = "asset"
        /\ w.node # x.node /\ w.path # x.path
        /\ y.design # w.design

(* C24: the file asset-k.png written by the generator for an image node is
   the file the compiler looks up for that node: in the document of the
   design the element of that node is the picture read from that file. *)
C24_OrdinalsAgree ==
    \A w \in g_writes :
        w.kind = "asset" /\ g_docs[w.design] # None =>
            LET box == Get(g_docs[w.design]).nodes_html[w.node]
            IN  box.tag = "img" /\ box.src = Some(ToDataUrl(w.path))

(* C26: when a render starts, and for as long as renders run, every
   generation task of every design is over (file written, failed or
   cancelled); after an aborted generation nothing is rendered. *)
C26_GenerationBeforeRender ==
    /\ g_pc \in {"rendering", "finished"} => \A t \in g_tasks : t.pc \in TaskOver
    /\ \A d \in DOMAIN g_docs : g_docs[d] # None => \A t \in g_tasks : t.pc \in TaskOver
    /\ g_pc = "aborted" /\ (\E d \in GenDesigns : g_gen[d] = "failed") =>
          \A d \in GenDesigns : g_docs[d] = None

\* a design was rendered after one task had written its file and one had failed
C26_Witness ==
    /\ g_pc = "rendering"
    /\ g_docs[1] # None
    /\ \E t, u \in g_tasks : t.pc = "done" /\ u.pc = "failed"
    /\ FilesOf(1) # {}

-----------------------------------------------------------------------------
(* get_model of the two scorer modules: handles loaded on first use *)

MaxCalls == 3

InitScorer ==
    /\ IdleCompile
    /\ IdleValidate
    /\ IdleRender
    /\ IdlePoll
    /\ IdleGen
    /\ IdleScorer

ReturnsHandles(k) ==
    /\ s_ret' = Some(<<s_model'[k], s_second'[k]>>)
    /\ s_pc' = "returned"

\* get_model is called: with _model still None the handles are loaded first
GetModel ==
    /\ s_pc \in {"idle", "returned", "raised"}
    /\ s_calls < MaxCalls
    /\ s_calls' = s_calls + 1
    /\ UNCHANGED <<s_model, s_second>>
    /\ \E k \in Scorers :
          /\ s_cur' = Some(k)
          /\ IF s_model[k] = None
             THEN s_pc' = "load_model" /\ s_ret' = None
             ELSE ReturnsHandles(k)
    /\ UNCHANGED <<compileVars, validateVars, renderVars, pollVars, genVars>>

\* from_pretrained of the model: aesexpert assigns _model once the whole
\* expression with eval() is evaluated, uiclip assigns it before eval() and to()
LoadModel ==
    /\ s_pc = "load_model"
    /\ LET k == Get(s_cur)
       IN  IF k = "uiclip"
           THEN /\ s_model' = [s_model EXCEPT ![k] = Some("loaded")]
                /\ s_pc' = "prepare"
           ELSE /\ s_model' = [s_model EXCEPT ![k] = Some("ready")]
                /\ s_pc' = "load_second"
    /\ UNCHANGED <<s_second, s_cur, s_ret, s_calls>>
    /\ UNCHANGED <<compileVars, validateVars, renderVars, pollVars, genVars>>

\* uiclip: _model = _model.eval(); _model = _model.to(DEVICE)
Prepare ==
    /\ s_pc = "prepare"
    /\ s_model' = [s_model EXCEPT ![Get(s_cur)] = Some("ready")]
    /\ s_pc' = "load_second"
    /\ UNCHANGED <<s_second, s_cur, s_ret, s_calls>>
    /\ UNCHANGED <<compileVars, validateVars, renderVars, pollVars, genVars>>

\* from_pretrained of the tokenizer or processor, then the return
LoadSecond ==
    /\ s_pc = "load_second"
    /\ s_second' = [s_second EXCEPT ![Get(s_cur)] = Some("ready")]
    /\ UNCHANGED s_model
    /\ ReturnsHandles(Get(s_cur))
    /\ UNCHANGED <<s_cur, s_calls>>
    /\ UNCHANGED <<compileVars, validateVars, renderVars, pollVars, genVars>>

\* a load raises (download, disk, memory): the globals stay as assigned so far
LoadFails ==
    /\ s_pc \in {"load_model", "prepare", "load_second"}
    /\ s_pc' = "raised"
    /\ UNCHANGED <<s_model, s_second, s_cur, s_ret, s_calls>>
    /\ UNCHANGED <<compileVars, validateVars, renderVars, pollVars, genVars>>

NextScorer == GetModel \/ LoadModel \/ Prepare \/ LoadSecond \/ LoadFails

SpecScorer == InitScorer /\ [][NextScorer]_vars

(* C25: every get_model call that returns yields a loaded model together
   with a loaded tokenizer or processor, never None as second element, also
   after calls in which a load failed. *)
C25_HandlesConsistent ==
    s_pc = "returned" =>
        /\ Get(s_ret)[1] = Some("ready")
        /\ Get(s_ret)[2] = Some("ready")

-----------------------------------------------------------------------------
(* The outcome of a generation client per answer to the submission *)

(* C27: whatever HTTP status answers the submission, a generation client
   ends in exactly one of two ways: it returns a provider payload, or it
   raises an error; it never completes normally without a payload. *)
C27_PayloadOrError ==
    CallOver =>
        \/ c_pc = "returned" /\ c_result # None /\ c_error = None
        \/ c_pc = "raised" /\ c_error # None /\ c_result = None

====
